---- MODULE Spec2Model ----
(***************************************************************************)
(* container-diff: the layer acquisition pipeline (processLayers and       *)
(* getFileSystemFromReference), the source resolver (ImagePrepper.GetImage *)
(* and getImage) and the result renderer (outputResults).                  *)
(*                                                                         *)
(* Three specifications share the module, one per subsystem; the variables *)
(* of the subsystems a specification does not run stay at their idle       *)
(* values.                                                                 *)
(*   LayerSpec   getFileSystemFromReference / processLayers, goroutines    *)
(*   Spec        ImagePrepper.GetImage, getImage                           *)
(*   OutputSpec  outputResults                                             *)
(***************************************************************************)
EXTENDS Integers, Sequences, FiniteSets

\* ------------------------------------------------------------------ bounds

\* Longest layer list (len(layerInfos)) the layer pipeline is run on.
MaxLayers == 2

\* ------------------------------------------------------------- error values

\* A Go error: nil, or a value carrying a message (a sequence of parts).
NilErr == [isNil |-> TRUE, msg |-> <<>>]

Err(m) == [isNil |-> FALSE, msg |-> m]

\* ======================================================================
\* Layer acquisition pipeline
\* ======================================================================

VARIABLES
    numLayers,   \* len(layerInfos)
    fate,        \* per layer: what the transport / decoder will answer
    pcMain,      \* position of the goroutine running getFileSystemFromReference
    pcCoord,     \* position of the anonymous goroutine of processLayers
    spawned,     \* number of per-layer goroutines started so far
    pcW,         \* position of each per-layer goroutine
    wErr,        \* the error a per-layer goroutine is sending (or sent)
    wg,          \* sync.WaitGroup counter
    errsBuf,     \* elements queued in the buffer of channel errs
    errsClosed,  \* close(errs) has run
    fullError,   \* the messages concatenated by the range loop
    applyLog,    \* unpackTar calls on the destination: <<"begin", i>>, <<"end", i>>
    tmpDirs,     \* temporary directories that exist
    plRet,       \* what processLayers returned
    fsRet,       \* what getFileSystemFromReference returned
    interrupted  \* the CLI interrupt has arrived

layerVars == <<numLayers, fate, pcMain, pcCoord, spawned, pcW, wErr, wg, errsBuf,
               errsClosed, fullError, applyLog, tmpDirs, plRet, fsRet, interrupted>>

\* Source resolver
VARIABLES
    source0,     \* the identifier GetImage was called with
    Source,      \* ImagePrepper.Source
    cloudDef,    \* which definition of CloudPrepper.SupportsImage is built
    can,         \* per strategy: whether its filesystem / config can be obtained
    pcR,         \* position in ImagePrepper.GetImage
    idx,         \* index into orderedPreppers of the next strategy to probe
    entry,       \* the function that was called
    calls,       \* the strategy methods called so far, in order
    supp,        \* per strategy: what SupportsImage answered
    got,         \* per strategy: how getImage ended
    meth,        \* per strategy: how its GetFileSystem and GetConfig ended
    dirOf,       \* per strategy: the directory its GetFileSystem created
    resDirs,     \* temporary directories that exist
    ret,         \* what was returned
    cleanLog     \* the calls of CleanupImage so far, in order

resolverVars == <<source0, Source, cloudDef, can, pcR, idx, entry, calls, supp, got,
                  meth, dirOf, resDirs, ret, cleanLog>>

\* Result renderer
VARIABLES
    resultMap,   \* map[string]util.Result: analyzer name -> result
    json,        \* the --json flag
    pcOut,       \* position in outputResults
    iterOrder,   \* the order in which `range resultMap` yielded the keys
    sortedTypes, \* the slice of that name
    loopIdx,     \* i of the rendering loop
    results,     \* the slice of that name
    rendered,    \* analyzer names whose OutputStruct / OutputText was called, in order
    stdout,      \* what has been written to standard output, in order
    logged       \* errors passed to glog.Error

outputVars == <<resultMap, json, pcOut, iterOrder, sortedTypes, loopIdx, results,
                rendered, stdout, logged>>

\* Analyzer validation
VARIABLES
    flagtypes,   \* the --types argument, a sequence of characters
    pcV,         \* position in checkIfValidAnalyzer
    vRet         \* the error checkIfValidAnalyzer returned

validVars == <<flagtypes, pcV, vRet>>

vars == <<layerVars, resolverVars, outputVars, validVars>>

\* Capacity of errs: make(chan error) is unbuffered.
ErrsCap == 0

\* What happens to one layer: every step succeeds (with or without a
\* decompressor), or the named step fails.
Fates == {"ok", "okPlain", "failGetBlob", "failDetect", "failDecompress", "failUntar"}

Layers == 1..numLayers

NoRet == [returned |-> FALSE, path |-> 0, err |-> NilErr]

\* The path ioutil.TempDir hands out.
DestPath == 1

\* len(errs): the number of elements queued in the channel buffer. A sender
\* parked on a full (or unbuffered) channel is not counted.
LenErrs == Len(errsBuf)

LayerInit ==
    /\ numLayers \in 0..MaxLayers
    /\ fate \in [1..numLayers -> Fates]
    /\ pcMain = "start"
    /\ pcCoord = "idle"
    /\ spawned = 0
    /\ pcW = [i \in 1..numLayers |-> "idle"]
    /\ wErr = [i \in 1..numLayers |-> NilErr]
    /\ wg = 0
    /\ errsBuf = <<>>
    /\ errsClosed = FALSE
    /\ fullError = <<>>
    /\ applyLog = <<>>
    /\ tmpDirs = {}
    /\ plRet = NoRet
    /\ fsRet = NoRet
    /\ interrupted = FALSE

\* getFileSystemFromReference, lines 90-111: TempDir, NewImage, NewImageSource.
\* Each may fail; a failure after TempDir returns "" and leaves the directory.
GetFileSystemFromReferenceBegin ==
    /\ ~interrupted
    /\ pcMain = "start"
    /\ \E outcome \in {"tempDirFails", "newImageFails", "newImageSourceFails", "ok"} :
         /\ tmpDirs' = IF outcome = "tempDirFails" THEN tmpDirs ELSE tmpDirs \cup {DestPath}
         /\ IF outcome = "ok"
            THEN /\ pcMain' = "processLayers"
                 /\ fsRet' = fsRet
            ELSE /\ pcMain' = "done"
                 /\ fsRet' = [returned |-> TRUE, path |-> 0, err |-> Err(<<outcome>>)]
    /\ UNCHANGED <<numLayers, fate, pcCoord, spawned, pcW, wErr, wg, errsBuf,
                   errsClosed, fullError, applyLog, plRet>>
    /\ UNCHANGED <<interrupted, resolverVars, outputVars, validVars>>

\* processLayers, lines 117-118: make(chan error) and `go func() {...}()`.
ProcessLayersGo ==
    /\ ~interrupted
    /\ pcMain = "processLayers"
    /\ pcMain' = "check"
    /\ pcCoord' = "add"
    /\ UNCHANGED <<numLayers, fate, spawned, pcW, wErr, wg, errsBuf, errsClosed,
                   fullError, applyLog, tmpDirs, plRet, fsRet>>
    /\ UNCHANGED <<interrupted, resolverVars, outputVars, validVars>>

\* What getFileSystemFromReference returns once processLayers returned e
\* (lines 112-113): the path, with e.
ReturnFromProcessLayers(e) ==
    /\ plRet' = [returned |-> TRUE, path |-> 0, err |-> e]
    /\ fsRet' = [returned |-> TRUE, path |-> DestPath, err |-> e]
    /\ pcMain' = "done"

\* A sender parked on errs: it completes when a receiver takes its value.
ParkedSenders == {i \in Layers : pcW[i] = "send"}

\* processLayers, lines 154-162. `len(errs) != 0` decides between the range
\* loop and `return err` with err still nil. The range loop takes a queued
\* element, else the value of a parked sender, and ends when errs is closed.
ProcessLayersCheck ==
    /\ ~interrupted
    /\ pcMain \in {"check", "range"}
    /\ IF pcMain = "check"
       THEN IF LenErrs # 0
            THEN /\ pcMain' = "range"
                 /\ UNCHANGED <<pcW, wg, errsBuf, fullError, plRet, fsRet>>
            ELSE /\ ReturnFromProcessLayers(NilErr)
                 /\ UNCHANGED <<pcW, wg, errsBuf, fullError>>
       ELSE IF errsBuf # <<>>
            THEN /\ fullError' = fullError \o Head(errsBuf).msg
                 /\ errsBuf' = Tail(errsBuf)
                 /\ UNCHANGED <<pcW, wg, pcMain, plRet, fsRet>>
            ELSE IF ParkedSenders # {}
            THEN \E i \in ParkedSenders :
                    /\ fullError' = fullError \o wErr[i].msg
                    /\ pcW' = [pcW EXCEPT ![i] = "done"]
                    /\ wg' = wg - 1
                    /\ UNCHANGED <<errsBuf, pcMain, plRet, fsRet>>
            ELSE /\ errsClosed
                 /\ ReturnFromProcessLayers(Err(fullError))
                 /\ UNCHANGED <<pcW, wg, errsBuf, fullError>>
    /\ UNCHANGED <<numLayers, fate, pcCoord, spawned, wErr, errsClosed, applyLog, tmpDirs>>
    /\ UNCHANGED <<interrupted, resolverVars, outputVars, validVars>>

\* Lines 119-120: wg.Add(len(layerInfos)).
CoordAdd ==
    /\ ~interrupted
    /\ pcCoord = "add"
    /\ wg' = wg + numLayers
    /\ pcCoord' = IF numLayers = 0 THEN "wait" ELSE "spawn"
    /\ UNCHANGED <<numLayers, fate, pcMain, spawned, pcW, wErr, errsBuf, errsClosed,
                   fullError, applyLog, tmpDirs, plRet, fsRet>>
    /\ UNCHANGED <<interrupted, resolverVars, outputVars, validVars>>

\* Lines 121-150: one iteration of the loop starts the goroutine of layer spawned+1.
CoordSpawn ==
    /\ ~interrupted
    /\ pcCoord = "spawn"
    /\ spawned' = spawned + 1
    /\ pcW' = [pcW EXCEPT ![spawned + 1] = "getBlob"]
    /\ pcCoord' = IF spawned + 1 = numLayers THEN "wait" ELSE "spawn"
    /\ UNCHANGED <<numLayers, fate, pcMain, wErr, wg, errsBuf, errsClosed, fullError,
                   applyLog, tmpDirs, plRet, fsRet>>
    /\ UNCHANGED <<interrupted, resolverVars, outputVars, validVars>>

\* Line 151: wg.Wait() returns when the counter is zero.
CoordWait ==
    /\ ~interrupted
    /\ pcCoord = "wait"
    /\ wg = 0
    /\ pcCoord' = "close"
    /\ UNCHANGED <<numLayers, fate, pcMain, spawned, pcW, wErr, wg, errsBuf, errsClosed,
                   fullError, applyLog, tmpDirs, plRet, fsRet>>
    /\ UNCHANGED <<interrupted, resolverVars, outputVars, validVars>>

\* Line 152: close(errs).
CoordClose ==
    /\ ~interrupted
    /\ pcCoord = "close"
    /\ errsClosed' = TRUE
    /\ pcCoord' = "exit"
    /\ UNCHANGED <<numLayers, fate, pcMain, spawned, pcW, wErr, wg, errsBuf, fullError,
                   applyLog, tmpDirs, plRet, fsRet>>
    /\ UNCHANGED <<interrupted, resolverVars, outputVars, validVars>>

\* `errs <- fmt.Errorf(what, err)` followed by return (deferred wg.Done()):
\* with room in the buffer the value is queued and the goroutine ends; without,
\* the goroutine parks on the send until a receiver takes the value.
SendAndReturn(i, what) ==
    /\ wErr' = [wErr EXCEPT ![i] = Err(<<<<what, i>>>>)]
    /\ IF Len(errsBuf) < ErrsCap
       THEN /\ errsBuf' = Append(errsBuf, Err(<<<<what, i>>>>))
            /\ pcW' = [pcW EXCEPT ![i] = "done"]
            /\ wg' = wg - 1
       ELSE /\ pcW' = [pcW EXCEPT ![i] = "send"]
            /\ UNCHANGED <<errsBuf, wg>>

\* Lines 124-128: imgSrc.GetBlob(b).
WorkerGetBlob(i) ==
    /\ ~interrupted
    /\ pcW[i] = "getBlob"
    /\ IF fate[i] = "failGetBlob"
       THEN SendAndReturn(i, "Failed to pull image layer")
       ELSE /\ pcW' = [pcW EXCEPT ![i] = "detect"]
            /\ UNCHANGED <<wErr, errsBuf, wg>>
    /\ UNCHANGED <<numLayers, fate, pcMain, pcCoord, spawned, errsClosed, fullError,
                   applyLog, tmpDirs, plRet, fsRet>>
    /\ UNCHANGED <<interrupted, resolverVars, outputVars, validVars>>

\* Lines 130-135: compression.DetectCompression(bi); f is nil for a plain layer.
WorkerDetect(i) ==
    /\ ~interrupted
    /\ pcW[i] = "detect"
    /\ IF fate[i] = "failDetect"
       THEN SendAndReturn(i, "Failed to detect image compression")
       ELSE /\ pcW' = [pcW EXCEPT ![i] = IF fate[i] = "okPlain" THEN "untar" ELSE "decompress"]
            /\ UNCHANGED <<wErr, errsBuf, wg>>
    /\ UNCHANGED <<numLayers, fate, pcMain, pcCoord, spawned, errsClosed, fullError,
                   applyLog, tmpDirs, plRet, fsRet>>
    /\ UNCHANGED <<interrupted, resolverVars, outputVars, validVars>>

\* Lines 135-142: reader, err = f(reader).
WorkerDecompress(i) ==
    /\ ~interrupted
    /\ pcW[i] = "decompress"
    /\ IF fate[i] = "failDecompress"
       THEN SendAndReturn(i, "Failed to decompress image")
       ELSE /\ pcW' = [pcW EXCEPT ![i] = "untar"]
            /\ UNCHANGED <<wErr, errsBuf, wg>>
    /\ UNCHANGED <<numLayers, fate, pcMain, pcCoord, spawned, errsClosed, fullError,
                   applyLog, tmpDirs, plRet, fsRet>>
    /\ UNCHANGED <<interrupted, resolverVars, outputVars, validVars>>

\* Lines 143-144: unpackTar(tr, path) starts writing into the destination.
WorkerUntarBegin(i) ==
    /\ ~interrupted
    /\ pcW[i] = "untar"
    /\ applyLog' = Append(applyLog, <<"begin", i>>)
    /\ pcW' = [pcW EXCEPT ![i] = "untarring"]
    /\ UNCHANGED <<numLayers, fate, pcMain, pcCoord, spawned, wErr, wg, errsBuf,
                   errsClosed, fullError, tmpDirs, plRet, fsRet>>
    /\ UNCHANGED <<interrupted, resolverVars, outputVars, validVars>>

\* Lines 144-148: unpackTar returns; its error is sent, and the goroutine returns.
WorkerUntarEnd(i) ==
    /\ ~interrupted
    /\ pcW[i] = "untarring"
    /\ applyLog' = Append(applyLog, <<"end", i>>)
    /\ IF fate[i] = "failUntar"
       THEN SendAndReturn(i, "Failed to untar layer with error")
       ELSE /\ pcW' = [pcW EXCEPT ![i] = "done"]
            /\ wg' = wg - 1
            /\ UNCHANGED <<wErr, errsBuf>>
    /\ UNCHANGED <<numLayers, fate, pcMain, pcCoord, spawned, errsClosed, fullError,
                   tmpDirs, plRet, fsRet>>
    /\ UNCHANGED <<interrupted, resolverVars, outputVars, validVars>>

\* The CLI interrupt. processLayers takes no cancellation signal and nothing
\* handles the interrupt, so it ends the process: every goroutine stops where
\* it is (every step of the pipeline is guarded by ~interrupted), and what was written
\* to the destination stays.
Interrupt ==
    /\ pcMain # "idle"
    /\ ~interrupted
    /\ interrupted' = TRUE
    /\ UNCHANGED <<numLayers, fate, pcMain, pcCoord, spawned, pcW, wErr, wg, errsBuf,
                   errsClosed, fullError, applyLog, tmpDirs, plRet, fsRet>>
    /\ UNCHANGED <<resolverVars, outputVars, validVars>>

\* The steps of getFileSystemFromReference and of the goroutines of
\* processLayers.
PipelineNext ==
    \/ GetFileSystemFromReferenceBegin
    \/ ProcessLayersGo
    \/ ProcessLayersCheck
    \/ CoordAdd
    \/ CoordSpawn
    \/ CoordWait
    \/ CoordClose
    \/ \E i \in Layers : WorkerGetBlob(i)
    \/ \E i \in Layers : WorkerDetect(i)
    \/ \E i \in Layers : WorkerDecompress(i)
    \/ \E i \in Layers : WorkerUntarBegin(i)
    \/ \E i \in Layers : WorkerUntarEnd(i)

LayerNext ==
    \/ PipelineNext
    \/ Interrupt


\* ======================================================================
\* Source resolver
\* ======================================================================

\* Longest identifier, in tokens.
MaxSourceLen == 3

\* An identifier is a sequence of tokens: a scheme prefix is one token, as is
\* a run of name text and the ".tar" extension.
DaemonPrefix == "daemon://"

RemotePrefix == "remote://"

Tokens == {DaemonPrefix, RemotePrefix, "img", ".tar"}

Identifiers == UNION {[1..n -> Tokens] : n \in 1..MaxSourceLen}

Strategies == {"daemon", "cloud", "tar"}

\* The probing order of the unprefixed case: local daemon, registry, tar file.
orderedPreppers == <<"daemon", "cloud", "tar">>

\* strings.HasPrefix(s, prefix)
HasPrefix(s, prefix) == Len(s) > 0 /\ s[1] = prefix

\* strings.Replace(s, old, "", -1): every occurrence of old is removed.
ReplaceAll(s, old) == SelectSeq(s, LAMBDA t : t # old)

\* regexp.MustCompile(DaemonPrefix + ".*").MatchString(s): unanchored, so the
\* prefix anywhere in s matches.
MatchesDaemonRegex(s) == \E k \in 1..Len(s) : s[k] = DaemonPrefix

\* IsTar(path): the path ends in the .tar extension.
IsTar(s) == Len(s) > 0 /\ s[Len(s)] = ".tar"

\* reference.Parse(s) returns no error: s starts with name text and holds no
\* "://" (a scheme is not part of the reference grammar).
ReferenceParseOK(s) ==
    /\ Len(s) > 0
    /\ s[1] = "img"
    /\ \A k \in 1..Len(s) : s[k] \in {"img", ".tar"}

\* CloudPrepper.SupportsImage, cloud_prepper.go lines 42-55: the answer and the
\* Source it leaves.
CloudSupportsImage1(s) ==
    IF MatchesDaemonRegex(s) \/ IsTar(s)
    THEN [ok |-> FALSE, Source |-> s]
    ELSE IF ~ReferenceParseOK(s)
         THEN [ok |-> TRUE, Source |-> ReplaceAll(s, RemotePrefix)]
         ELSE [ok |-> FALSE, Source |-> s]

\* CloudPrepper.SupportsImage, cloud_prepper.go lines 111-118.
CloudSupportsImage2(s) ==
    IF MatchesDaemonRegex(s)
    THEN [ok |-> FALSE, Source |-> s]
    ELSE [ok |-> ReferenceParseOK(s) /\ ~IsTar(s), Source |-> s]

CloudSupportsImage(s) == IF cloudDef = 1 THEN CloudSupportsImage1(s) ELSE CloudSupportsImage2(s)

NoImage == [Source |-> <<>>, FSPath |-> 0, Config |-> <<>>]

NoResult == [returned |-> FALSE, img |-> NoImage, err |-> NilErr]

\* The ConfigSchema the strategy s parses.
ConfigOf(s) == <<"config", s>>

\* ioutil.TempDir: a directory that does not exist yet.
FreshDir == Cardinality(resDirs) + 1

ResolverInit ==
    /\ source0 \in Identifiers
    /\ Source = source0
    /\ cloudDef \in {1, 2}
    /\ can \in [Strategies -> [fs : BOOLEAN, cfg : BOOLEAN]]
    /\ pcR = "start"
    /\ idx = 1
    /\ entry = "none"
    /\ calls = <<>>
    /\ supp = [s \in Strategies |-> "notAsked"]
    /\ got = [s \in Strategies |-> "notTried"]
    /\ meth = [s \in Strategies |-> [fs |-> "notCalled", cfg |-> "notCalled"]]
    /\ dirOf = [s \in Strategies |-> 0]
    /\ resDirs = {}
    /\ ret = NoResult
    /\ cleanLog = <<>>

ResolverIdle ==
    /\ source0 = <<>>
    /\ Source = <<>>
    /\ cloudDef = 1
    /\ can = [s \in Strategies |-> [fs |-> TRUE, cfg |-> TRUE]]
    /\ pcR = "idle"
    /\ idx = 1
    /\ entry = "none"
    /\ calls = <<>>
    /\ supp = [s \in Strategies |-> "notAsked"]
    /\ got = [s \in Strategies |-> "notTried"]
    /\ meth = [s \in Strategies |-> [fs |-> "notCalled", cfg |-> "notCalled"]]
    /\ dirOf = [s \in Strategies |-> 0]
    /\ resDirs = {}
    /\ ret = NoResult
    /\ cleanLog = <<>>

LayerIdle ==
    /\ numLayers = 0
    /\ fate = <<>>
    /\ pcMain = "idle"
    /\ pcCoord = "idle"
    /\ spawned = 0
    /\ pcW = <<>>
    /\ wErr = <<>>
    /\ wg = 0
    /\ errsBuf = <<>>
    /\ errsClosed = FALSE
    /\ fullError = <<>>
    /\ applyLog = <<>>
    /\ tmpDirs = {}
    /\ plRet = NoRet
    /\ fsRet = NoRet
    /\ interrupted = FALSE

\* The ways CloudPrepper.GetFileSystem (cloud_prepper.go lines 57-64) can end
\* for identifier src: docker.ParseReference fails, or
\* getFileSystemFromReference fails at TempDir, at NewImage or at
\* NewImageSource, or it returns the path with what processLayers returned,
\* which is nil.
CloudFileSystemOutcomes(src) ==
    IF ~ReferenceParseOK(src) THEN {"parseFails"}
    ELSE IF can["cloud"].fs THEN {"ok"}
    ELSE {"tempDirFails", "newImageFails", "newImageSourceFails"}

\* The ways GetFileSystem of the daemon and of the tar strategy can end. The
\* daemon strategy runs the layer pipeline; the tar strategy runs
\* getImageFromTar (TempDir, then unpackDockerSave).
LocalFileSystemOutcomes(s) ==
    IF can[s].fs THEN {"ok"}
    ELSE IF s = "tar" THEN {"tempDirFails", "unpackFails"}
    ELSE {"tempDirFails", "newImageFails", "newImageSourceFails"}

\* The ways GetFileSystem of strategy s can end for identifier src.
FileSystemOutcomes(s, src) ==
    IF s = "cloud" THEN CloudFileSystemOutcomes(src) ELSE LocalFileSystemOutcomes(s)

\* A failure after TempDir returns without removing the directory.
LeavesDir(outcome) == outcome \in {"ok", "newImageFails", "newImageSourceFails", "unpackFails"}

\* fmt.Errorf("error msg: %s", err.Error())
Wrap(e) == Err(<<"error msg: ">> \o e.msg)

\* getImage of image_prepper.go (lines 41-58) on strategy s, whose
\* GetFileSystem ends with fsOutcome: the Image and error returned, the
\* methods called, and the directory created.
getImage(s, src, fsOutcome) ==
    LET made == IF LeavesDir(fsOutcome) THEN {FreshDir} ELSE {}
    IN  IF fsOutcome # "ok"
        THEN [img |-> NoImage, err |-> Wrap(Err(<<<<fsOutcome, s>>>>)),
              calls |-> <<<<s, "GetFileSystem">>>>, made |-> made,
              meth |-> [fs |-> "failed", cfg |-> "notCalled"]]
        ELSE IF ~can[s].cfg
        THEN [img |-> NoImage, err |-> Wrap(Err(<<<<"configFails", s>>>>)),
              calls |-> <<<<s, "GetFileSystem">>, <<s, "GetConfig">>>>, made |-> made,
              meth |-> [fs |-> "ok", cfg |-> "failed"]]
        ELSE [img |-> [Source |-> src, FSPath |-> FreshDir, Config |-> ConfigOf(s)],
              err |-> NilErr,
              calls |-> <<<<s, "GetFileSystem">>, <<s, "GetConfig">>>>, made |-> made,
              meth |-> [fs |-> "ok", cfg |-> "ok"]]

\* getImage of part_002 (lines 61-79): a GetConfig error is logged, and the
\* Image is returned with the zero ConfigSchema and a nil error.
getImagePart002(s, src, fsOutcome) ==
    LET made == IF LeavesDir(fsOutcome) THEN {FreshDir} ELSE {}
    IN  IF fsOutcome # "ok"
        THEN [img |-> NoImage, err |-> Err(<<<<fsOutcome, s>>>>),
              calls |-> <<<<s, "GetFileSystem">>>>, made |-> made,
              meth |-> [fs |-> "failed", cfg |-> "notCalled"]]
        ELSE [img |-> [Source |-> src, FSPath |-> FreshDir,
                       Config |-> IF can[s].cfg THEN ConfigOf(s) ELSE <<>>],
              err |-> NilErr,
              calls |-> <<<<s, "GetFileSystem">>, <<s, "GetConfig">>>>, made |-> made,
              meth |-> [fs |-> "ok", cfg |-> IF can[s].cfg THEN "ok" ELSE "failed"]]

\* The bookkeeping of one getImage call r on strategy s.
Record(s, r) ==
    /\ calls' = calls \o r.calls
    /\ got' = [got EXCEPT ![s] = IF r.err.isNil THEN "ok" ELSE "failed"]
    /\ meth' = [meth EXCEPT ![s] = r.meth]
    /\ dirOf' = [dirOf EXCEPT ![s] = IF r.made = {} THEN 0 ELSE FreshDir]
    /\ resDirs' = resDirs \cup r.made

\* The prefix branch taken without looking at the prefix it is.
PrefixStrategy_AlwaysDaemon(s) == "daemon"

\* ImagePrepper.GetImage, lines 66-72: the strategy the prefix of s selects.
PrefixStrategy(s) == IF HasPrefix(s, DaemonPrefix) THEN "daemon" ELSE "cloud"

\* A failure of the selected strategy hands over to the probing loop.
PrefixedOutcome_FallsBack(r) ==
    IF r.err.isNil
    THEN [pc |-> "returned", ret |-> [returned |-> TRUE, img |-> r.img, err |-> r.err]]
    ELSE [pc |-> "loop", ret |-> ret]

\* ImagePrepper.GetImage, lines 69 and 73: `return getImage(prepper)`.
PrefixedOutcome(r) ==
    [pc |-> "returned", ret |-> [returned |-> TRUE, img |-> r.img, err |-> r.err]]

\* ImagePrepper.GetImage, lines 66-74: an identifier with a scheme prefix goes
\* to that strategy, and what getImage returns is returned.
GetImagePrefixed ==
    /\ pcR = "start"
    /\ HasPrefix(Source, DaemonPrefix) \/ HasPrefix(Source, RemotePrefix)
    /\ LET s == PrefixStrategy(Source)
           stripped == IF HasPrefix(Source, DaemonPrefix)
                       THEN ReplaceAll(Source, DaemonPrefix)
                       ELSE ReplaceAll(Source, RemotePrefix)
       IN  \E fsOutcome \in FileSystemOutcomes(s, stripped) :
             LET r == getImage(s, stripped, fsOutcome)
             IN  /\ Source' = stripped
                 /\ Record(s, r)
                 /\ ret' = PrefixedOutcome(r).ret
                 /\ pcR' = PrefixedOutcome(r).pc
    /\ entry' = "GetImage"
    /\ UNCHANGED <<source0, cloudDef, can, idx, supp>>
    /\ UNCHANGED <<cleanLog, layerVars, outputVars, validVars>>

\* SupportsImage of the daemon and of the tar strategy: either answer, and
\* Source is left as it is.
LocalSupportsImageAnswers == {[ok |-> b, Source |-> Source] : b \in BOOLEAN}

\* prepper.SupportsImage() (line 79) on strategy s: the answers it may give,
\* each with the Source it leaves.
SupportsImageAnswers(s) ==
    IF s = "cloud" THEN {CloudSupportsImage(Source)} ELSE LocalSupportsImageAnswers

\* The first failure of a supporting strategy ends the loop with its error.
ProbeOutcome_ReturnsError(r) ==
    [pc |-> "returned", idx |-> idx, ret |-> [returned |-> TRUE, img |-> r.img, err |-> r.err]]

\* A success is kept, and the loop goes on to the next strategy.
ProbeOutcome_KeepsGoing(r) ==
    [pc |-> "loop", idx |-> idx + 1,
     ret |-> IF r.err.isNil THEN [returned |-> FALSE, img |-> r.img, err |-> NilErr] ELSE ret]

\* ImagePrepper.GetImage, lines 82-87: a failure of getImage is logged and the
\* loop continues; a success is returned.
ProbeOutcome(r) ==
    IF r.err.isNil
    THEN [pc |-> "returned", idx |-> idx, ret |-> [returned |-> TRUE, img |-> r.img, err |-> NilErr]]
    ELSE [pc |-> "loop", idx |-> idx + 1, ret |-> ret]

\* ImagePrepper.GetImage, lines 77-89: one iteration of the loop over
\* orderedPreppers.
GetImageProbe ==
    /\ \/ pcR = "start" /\ ~HasPrefix(Source, DaemonPrefix) /\ ~HasPrefix(Source, RemotePrefix)
       \/ pcR = "loop"
    /\ idx <= Len(orderedPreppers)
    /\ LET s == orderedPreppers[idx]
       IN  \E a \in SupportsImageAnswers(s) :
             /\ Source' = a.Source
             /\ supp' = [supp EXCEPT ![s] = IF a.ok THEN "yes" ELSE "no"]
             /\ IF a.ok
                THEN \E fsOutcome \in FileSystemOutcomes(s, a.Source) :
                       LET r0 == getImage(s, a.Source, fsOutcome)
                           r == [r0 EXCEPT !.calls = <<<<s, "SupportsImage">>>> \o r0.calls]
                       IN  /\ Record(s, r)
                           /\ ret' = ProbeOutcome(r).ret
                           /\ pcR' = ProbeOutcome(r).pc
                           /\ idx' = ProbeOutcome(r).idx
                ELSE /\ calls' = Append(calls, <<s, "SupportsImage">>)
                     /\ pcR' = "loop"
                     /\ idx' = idx + 1
                     /\ UNCHANGED <<got, meth, dirOf, resDirs, ret>>
    /\ entry' = "GetImage"
    /\ UNCHANGED <<source0, cloudDef, can>>
    /\ UNCHANGED <<cleanLog, layerVars, outputVars, validVars>>

CouldNotRetrieve == Err(<<"Could not retrieve image from source">>)

\* ImagePrepper.GetImage, line 90: the loop ended without a return.
GetImageExhausted ==
    /\ pcR = "loop"
    /\ idx > Len(orderedPreppers)
    /\ ret' = [returned |-> TRUE, img |-> NoImage, err |-> CouldNotRetrieve]
    /\ pcR' = "returned"
    /\ UNCHANGED <<source0, Source, cloudDef, can, idx, entry, calls, supp, got, meth,
                   dirOf, resDirs>>
    /\ UNCHANGED <<cleanLog, layerVars, outputVars, validVars>>

\* getImage of part_002 called on one strategy (Prepper.GetImage, part_002
\* line 38).
PrepperGetImage ==
    /\ pcR = "start"
    /\ \E s \in Strategies :
         \E fsOutcome \in FileSystemOutcomes(s, Source) :
           LET r == getImagePart002(s, Source, fsOutcome)
           IN  /\ Record(s, r)
               /\ ret' = [returned |-> TRUE, img |-> r.img, err |-> r.err]
    /\ pcR' = "returned"
    /\ entry' = "getImage"
    /\ UNCHANGED <<source0, Source, cloudDef, can, idx, supp>>
    /\ UNCHANGED <<cleanLog, layerVars, outputVars, validVars>>

\* CloudPrepper.SupportsImage (cloud_prepper.go lines 42-55 or 111-118) called
\* on a CloudPrepper holding any identifier.
CloudPrepperSupportsImage ==
    /\ pcR = "start"
    /\ LET a == CloudSupportsImage(Source)
       IN  /\ Source' = a.Source
           /\ supp' = [supp EXCEPT !["cloud"] = IF a.ok THEN "yes" ELSE "no"]
    /\ calls' = Append(calls, <<"cloud", "SupportsImage">>)
    /\ pcR' = "returned"
    /\ entry' = "SupportsImage"
    /\ UNCHANGED <<source0, cloudDef, can, idx, got, meth, dirOf, resDirs, ret>>
    /\ UNCHANGED <<cleanLog, layerVars, outputVars, validVars>>

\* Most calls of CleanupImage on one Image.
MaxCleanups == 2

\* Most temporary directories that exist when CleanupImage is called.
MaxDirs == 2

\* CleanupImage never calls os.RemoveAll.
ShouldRemove_Never(image) == FALSE

\* CleanupImage, line 189: `if image.FSPath != ""`.
ShouldRemove(image) == image.FSPath # 0

\* CleanupImage, part_002 lines 188-195: os.RemoveAll(image.FSPath) when FSPath
\* is not empty. RemoveAll of a path that does not exist returns nil; of a
\* directory that exists it may return an error, which is logged, and the
\* directory is then still there.
CleanupImage ==
    /\ pcR = "cleanup"
    /\ Len(cleanLog) < MaxCleanups
    /\ LET image == ret.img
       IN  IF ShouldRemove(image)
           THEN \E failed \in (IF image.FSPath \in resDirs THEN BOOLEAN ELSE {FALSE}) :
                  /\ resDirs' = IF failed THEN resDirs ELSE resDirs \ {image.FSPath}
                  /\ cleanLog' = Append(cleanLog, [path |-> image.FSPath, called |-> TRUE,
                                                   failed |-> failed, before |-> resDirs,
                                                   after |-> resDirs'])
           ELSE /\ resDirs' = resDirs
                /\ cleanLog' = Append(cleanLog, [path |-> image.FSPath, called |-> FALSE,
                                                 failed |-> FALSE, before |-> resDirs,
                                                 after |-> resDirs])
    /\ UNCHANGED <<source0, Source, cloudDef, can, pcR, idx, entry, calls, supp, got, meth,
                   dirOf, ret>>
    /\ UNCHANGED <<layerVars, outputVars, validVars>>

\* An Image some GetImage returned, with the temporary directories that exist
\* then: its own if it has one and was not removed, and those left by others.
CleanupInit ==
    /\ source0 = <<"img">>
    /\ Source = <<"img">>
    /\ cloudDef = 1
    /\ can = [s \in Strategies |-> [fs |-> TRUE, cfg |-> TRUE]]
    /\ pcR = "cleanup"
    /\ idx = 1
    /\ entry = "CleanupImage"
    /\ calls = <<>>
    /\ supp = [s \in Strategies |-> "notAsked"]
    /\ got = [s \in Strategies |-> "notTried"]
    /\ meth = [s \in Strategies |-> [fs |-> "notCalled", cfg |-> "notCalled"]]
    /\ dirOf = [s \in Strategies |-> 0]
    /\ resDirs \in SUBSET (1..MaxDirs)
    /\ \E f \in 0..MaxDirs, s \in Strategies :
         ret = [returned |-> TRUE,
                img |-> [Source |-> <<"img">>, FSPath |-> f, Config |-> ConfigOf(s)],
                err |-> NilErr]
    /\ cleanLog = <<>>

ResolverNext ==
    \/ GetImagePrefixed
    \/ GetImageProbe
    \/ GetImageExhausted
    \/ PrepperGetImage
    \/ CloudPrepperSupportsImage

\* ======================================================================
\* Result renderer
\* ======================================================================

\* Longest analyzer name, in characters.
MaxNameLen == 2

\* Largest number of analyzers in a result map.
MaxAnalyzers == 2

\* The characters (bytes) analyzer names are written in.
Chars == {1, 2}

Names == UNION {[1..n -> Chars] : n \in 1..MaxNameLen}

\* What a util.Result holds.
Payloads == {"x", "y"}

\* a < b for Go strings: byte-wise, a proper prefix being smaller.
RECURSIVE LexLess(_, _)
LexLess(a, b) ==
    IF b = <<>> THEN FALSE
    ELSE IF a = <<>> THEN TRUE
    ELSE IF Head(a) # Head(b) THEN Head(a) < Head(b)
    ELSE LexLess(Tail(a), Tail(b))

\* x inserted into the ascending sequence s.
RECURSIVE Insert(_, _)
Insert(x, s) ==
    IF s = <<>> THEN <<x>>
    ELSE IF LexLess(x, Head(s)) THEN <<x>> \o s
    ELSE <<Head(s)>> \o Insert(x, Tail(s))

\* The slice left in the order the keys were appended in.
SortStrings_Unsorted(s) == s

\* sort.Strings(s)
RECURSIVE SortStrings(_)
SortStrings(s) == IF s = <<>> THEN <<>> ELSE Insert(Head(s), SortStrings(Tail(s)))

\* result.OutputStruct()
OutputStruct(result) == <<"struct", result>>

\* The orders in which `range resultMap` may yield the keys: any.
IterationOrders(m) ==
    {o \in [1..Cardinality(DOMAIN m) -> DOMAIN m] :
        \A i, j \in DOMAIN o : i # j => o[i] # o[j]}

OutputInit ==
    /\ \E keys \in {k \in SUBSET Names : Cardinality(k) <= MaxAnalyzers} :
         resultMap \in [keys -> Payloads]
    /\ json \in BOOLEAN
    /\ pcOut = "start"
    /\ iterOrder = <<>>
    /\ sortedTypes = <<>>
    /\ loopIdx = 1
    /\ results = <<>>
    /\ rendered = <<>>
    /\ stdout = <<>>
    /\ logged = <<>>

OutputIdle ==
    /\ resultMap = <<>>
    /\ json = FALSE
    /\ pcOut = "idle"
    /\ iterOrder = <<>>
    /\ sortedTypes = <<>>
    /\ loopIdx = 1
    /\ results = <<>>
    /\ rendered = <<>>
    /\ stdout = <<>>
    /\ logged = <<>>

\* outputResults, lines 58-64: the keys are collected in the map's iteration
\* order and sorted; results is made with len(resultMap) nil elements.
OutputCollect ==
    /\ pcOut = "start"
    /\ \E o \in IterationOrders(resultMap) :
         /\ iterOrder' = o
         /\ sortedTypes' = SortStrings(o)
    /\ results' = [i \in 1..Cardinality(DOMAIN resultMap) |-> <<"nil">>]
    /\ pcOut' = "loop"
    /\ UNCHANGED <<resultMap, json, loopIdx, rendered, stdout, logged>>
    /\ UNCHANGED <<layerVars, resolverVars, validVars>>

\* An error of OutputText ends the rendering.
AfterOutputText_StopsAtError(failed) ==
    IF failed THEN [pc |-> "done", idx |-> loopIdx] ELSE [pc |-> "loop", idx |-> loopIdx + 1]

\* outputResults, lines 70-73: the error of OutputText is logged, and the loop
\* goes on with the next analyzer either way.
AfterOutputText(failed) == [pc |-> "loop", idx |-> loopIdx + 1]

\* The payload is written as soon as the first analyzer has been rendered.
LoopDone_AfterFirst == loopIdx > 1

\* outputResults, lines 65 and 76: the loop over sortedTypes has ended.
LoopDone == loopIdx > Len(sortedTypes)

\* outputResults, lines 65-75: one iteration of the loop over sortedTypes.
\* OutputText writes the analyzer's text, or returns an error that is logged.
OutputRender ==
    /\ pcOut = "loop"
    /\ loopIdx <= Len(sortedTypes)
    /\ LET analyzerType == sortedTypes[loopIdx]
           result == resultMap[analyzerType]
       IN  /\ rendered' = Append(rendered, analyzerType)
           /\ IF json
              THEN /\ results' = [results EXCEPT ![loopIdx] = OutputStruct(result)]
                   /\ UNCHANGED <<stdout, logged>>
                   /\ loopIdx' = loopIdx + 1
                   /\ pcOut' = pcOut
              ELSE /\ \E fails \in BOOLEAN :
                        /\ IF fails
                           THEN /\ logged' = Append(logged, <<"OutputText", analyzerType>>)
                                /\ stdout' = stdout
                           ELSE /\ stdout' = Append(stdout, <<"text", analyzerType, result>>)
                                /\ logged' = logged
                        /\ loopIdx' = AfterOutputText(fails).idx
                        /\ pcOut' = AfterOutputText(fails).pc
                   /\ results' = results
    /\ UNCHANGED <<resultMap, json, iterOrder, sortedTypes>>
    /\ UNCHANGED <<layerVars, resolverVars, validVars>>

\* outputResults, lines 76-82: in JSON mode the whole slice is written by
\* util.JSONify, whose error is logged.
OutputFinish ==
    /\ pcOut = "loop"
    /\ LoopDone
    /\ IF json
       THEN \E fails \in BOOLEAN :
              IF fails
              THEN /\ logged' = Append(logged, <<"JSONify">>)
                   /\ stdout' = stdout
              ELSE /\ stdout' = Append(stdout, <<"json", results>>)
                   /\ logged' = logged
       ELSE UNCHANGED <<stdout, logged>>
    /\ pcOut' = "done"
    /\ UNCHANGED <<resultMap, json, iterOrder, sortedTypes, loopIdx, results, rendered>>
    /\ UNCHANGED <<layerVars, resolverVars, validVars>>

OutputNext ==
    \/ OutputCollect
    \/ OutputRender
    \/ OutputFinish

\* ======================================================================
\* Analyzer validation
\* ======================================================================

\* Longest --types argument, in characters.
MaxFlagLen == 4

\* The characters of a --types argument: two letters and the separator.
FlagChars == {"a", "b", ","}

\* differs.Analyzers: the names that are registered.
Analyzers == {<<"a">>, <<"b", "a">>}

\* The position of the first "," of s, or 0.
FirstComma(s) ==
    IF \E k \in 1..Len(s) : s[k] = ","
    THEN CHOOSE k \in 1..Len(s) : s[k] = "," /\ \A j \in 1..(k - 1) : s[j] # ","
    ELSE 0

\* strings.Split(s, ","): the pieces between the separators, empty ones too.
RECURSIVE Split(_)
Split(s) ==
    IF FirstComma(s) = 0
    THEN <<s>>
    ELSE <<SubSeq(s, 1, FirstComma(s) - 1)>> \o Split(SubSeq(s, FirstComma(s) + 1, Len(s)))

\* Only the first name is looked up.
CheckNames_FirstOnly(names) ==
    IF Head(names) \notin Analyzers
    THEN Err(<<"Argument is not a valid analyzer", Head(names)>>)
    ELSE NilErr

\* checkIfValidAnalyzer, lines 98-103: the loop over the names returns the
\* error of the first name that is not registered, and nil after the last.
RECURSIVE CheckNames(_)
CheckNames(names) ==
    IF names = <<>>
    THEN NilErr
    ELSE IF Head(names) \notin Analyzers
         THEN Err(<<"Argument is not a valid analyzer", Head(names)>>)
         ELSE CheckNames(Tail(names))

\* checkIfValidAnalyzer(flagtypes), lines 93-104.
checkIfValidAnalyzer(flag) ==
    IF flag = <<>>
    THEN Err(<<"Please provide at least one analyzer to run", <<>>>>)
    ELSE CheckNames(Split(flag))

ValidInit ==
    /\ flagtypes \in UNION {[1..n -> FlagChars] : n \in 0..MaxFlagLen}
    /\ pcV = "start"
    /\ vRet = NilErr

ValidIdle ==
    /\ flagtypes = <<>>
    /\ pcV = "idle"
    /\ vRet = NilErr

CheckIfValidAnalyzer ==
    /\ pcV = "start"
    /\ vRet' = checkIfValidAnalyzer(flagtypes)
    /\ pcV' = "done"
    /\ UNCHANGED flagtypes
    /\ UNCHANGED <<layerVars, resolverVars, outputVars>>

\* ======================================================================
\* Specifications
\* ======================================================================

Init == LayerIdle /\ ResolverInit /\ OutputIdle /\ ValidIdle

Next == ResolverNext

Spec == Init /\ [][Next]_vars

LayerSpecInit == LayerInit /\ ResolverIdle /\ OutputIdle /\ ValidIdle

LayerSpec == LayerSpecInit /\ [][LayerNext]_vars

OutputSpecInit == LayerIdle /\ ResolverIdle /\ OutputInit /\ ValidIdle

OutputSpec == OutputSpecInit /\ [][OutputNext]_vars

CleanupSpecInit == LayerIdle /\ CleanupInit /\ OutputIdle /\ ValidIdle

CleanupSpec == CleanupSpecInit /\ [][CleanupImage]_vars

ValidSpecInit == LayerIdle /\ ResolverIdle /\ OutputIdle /\ ValidInit

ValidSpec == ValidSpecInit /\ [][CheckIfValidAnalyzer]_vars

\* ======================================================================
\* Properties of the layer pipeline (LayerSpec)
\* ======================================================================

\* The layers whose goroutine fails, now or later.
FailingLayers == {i \in Layers : fate[i] \notin {"ok", "okPlain"}}

\* The message the goroutine of a failing layer sends.
FailureOf(i) ==
    << CASE fate[i] = "failGetBlob" -> "Failed to pull image layer"
         [] fate[i] = "failDetect" -> "Failed to detect image compression"
         [] fate[i] = "failDecompress" -> "Failed to decompress image"
         [] OTHER -> "Failed to untar layer with error",
       i >>

\* Position k of applyLog starts the application of a layer.
IsBegin(k) == applyLog[k][1] = "begin"

\* C1: layers are applied to the destination in strictly increasing index
\* order, and an application starts only when every application started
\* before it has completed.
C1_AppliedInOrder ==
    \A k \in 1..Len(applyLog) :
        IsBegin(k) =>
            \A m \in 1..(k - 1) :
                IsBegin(m) =>
                    /\ applyLog[m][2] < applyLog[k][2]
                    /\ \E e \in (m + 1)..(k - 1) : applyLog[e] = <<"end", applyLog[m][2]>>

\* C2: when the fetch, detection, decompression or untar of some layer fails,
\* processLayers returns a non-nil error, and so does
\* getFileSystemFromReference.
C2_FailureIsReported ==
    (plRet.returned /\ FailingLayers # {}) =>
        /\ ~plRet.err.isNil
        /\ ~fsRet.err.isNil

\* C3: when processLayers returns, every per-layer goroutine has finished.
C3_ReturnsAfterWorkers ==
    plRet.returned => \A i \in Layers : pcW[i] = "done"

\* C4: when k >= 1 goroutines fail, the error processLayers reports holds the
\* failure of each of them.
C4_AllFailuresReported ==
    plRet.returned =>
        \A i \in FailingLayers :
            \E k \in 1..Len(plRet.err.msg) : plRet.err.msg[k] = FailureOf(i)

\* ======================================================================
\* Properties of the source resolver (Spec)
\* ======================================================================

\* The identifier GetImage was called with carries a scheme prefix.
Prefixed0 == HasPrefix(source0, DaemonPrefix) \/ HasPrefix(source0, RemotePrefix)

\* The strategy the prefix names.
Selected0 == IF HasPrefix(source0, DaemonPrefix) THEN "daemon" ELSE "cloud"

\* Every method call so far was made on strategy s.
OnlyCalled(s) == \A k \in 1..Len(calls) : calls[k][1] = s

\* Some method of strategy s has been called.
Called(s) == \E k \in 1..Len(calls) : calls[k][1] = s

\* The Image getImage builds from what strategy s returned.
ImageBy(s) == [Source |-> Source, FSPath |-> dirOf[s], Config |-> ConfigOf(s)]

\* C5: for an identifier that starts with the daemon prefix only the daemon
\* strategy's methods are called, and for one that starts with the remote
\* prefix only the registry strategy's; no method of another strategy is.
C5_PrefixSelectsExclusively ==
    (entry = "GetImage" /\ Prefixed0) => OnlyCalled(Selected0)

\* C5 witness: a remote-prefixed identifier that is also a tar path has been
\* resolved through the registry strategy's GetFileSystem and GetConfig.
C5_Witness ==
    /\ entry = "GetImage"
    /\ pcR = "returned"
    /\ HasPrefix(source0, RemotePrefix)
    /\ IsTar(source0)
    /\ calls = <<<<"cloud", "GetFileSystem">>, <<"cloud", "GetConfig">>>>

\* Position of strategy s in orderedPreppers.
OrderOf(s) == CHOOSE k \in 1..Len(orderedPreppers) : orderedPreppers[k] = s

\* Strategy s was skipped (SupportsImage false) or failed in getImage.
Lost(s) == supp[s] = "no" \/ (supp[s] = "yes" /\ got[s] = "failed")

\* C6: for an unprefixed identifier the strategies are probed in the order of
\* orderedPreppers; a strategy whose SupportsImage is false is skipped, a
\* supporting strategy that fails is followed by the next one, the Image of
\* the first strategy that succeeds is returned, and the 'Could not retrieve
\* image from source' error is returned only when every strategy was skipped
\* or failed.
C6_UnprefixedProbing ==
    (entry = "GetImage" /\ ~Prefixed0) =>
        /\ \A a, b \in 1..Len(calls) :
               a < b => OrderOf(calls[a][1]) <= OrderOf(calls[b][1])
        /\ \A s \in Strategies :
               /\ supp[s] # "notAsked" =>
                      \A k \in 1..(OrderOf(s) - 1) : Lost(orderedPreppers[k])
               /\ supp[s] # "yes" => (got[s] = "notTried" /\ meth[s].fs = "notCalled")
               /\ supp[s] = "yes" =>
                      (got[s] = "ok" <=> (meth[s].fs = "ok" /\ meth[s].cfg = "ok"))
               /\ supp[s] = "yes" => got[s] # "notTried"
        /\ pcR = "returned" =>
               IF \E s \in Strategies : got[s] = "ok"
               THEN LET s == CHOOSE w \in Strategies : got[w] = "ok"
                    IN  /\ ret.err = NilErr
                        /\ ret.img = ImageBy(s)
                        /\ \A w \in Strategies :
                               OrderOf(w) > OrderOf(s) => supp[w] = "notAsked"
               ELSE /\ ret.err = CouldNotRetrieve
                    /\ ret.img = NoImage
                    /\ \A s \in Strategies : Lost(s)

\* C6 witness: the first strategy was skipped, the second supported the
\* identifier and failed, and the third one's Image was returned.
C6_Witness ==
    /\ entry = "GetImage"
    /\ ~Prefixed0
    /\ pcR = "returned"
    /\ supp[orderedPreppers[1]] = "no"
    /\ supp[orderedPreppers[2]] = "yes" /\ got[orderedPreppers[2]] = "failed"
    /\ got[orderedPreppers[3]] = "ok"
    /\ ret.err = NilErr

\* C7: for an identifier with a scheme prefix, a failure of the selected
\* strategy is terminal: GetImage returns that strategy's error, no Image,
\* and no other strategy is called.
C7_PrefixedFailureIsTerminal ==
    (entry = "GetImage" /\ Prefixed0 /\ got[Selected0] = "failed") =>
        /\ pcR = "returned"
        /\ ~ret.err.isNil
        /\ ret.err.msg[1] = "error msg: "
        /\ ret.err.msg[2][2] = Selected0
        /\ ret.img = NoImage
        /\ OnlyCalled(Selected0)

\* C7 witness: a daemon-prefixed identifier whose daemon strategy failed at
\* GetConfig, while the registry strategy could have materialized it.
C7_Witness ==
    /\ entry = "GetImage"
    /\ pcR = "returned"
    /\ HasPrefix(source0, DaemonPrefix)
    /\ meth["daemon"].cfg = "failed"
    /\ can["cloud"].fs /\ can["cloud"].cfg
    /\ ~ret.err.isNil

\* The registry strategy supports the identifier GetImage was called with and
\* can materialize it.
CloudWouldSucceed ==
    /\ CloudSupportsImage(source0).ok
    /\ ReferenceParseOK(CloudSupportsImage(source0).Source)
    /\ can["cloud"].fs
    /\ can["cloud"].cfg

\* C8: for an unprefixed identifier that the daemon strategy and the registry
\* strategy both support and can materialize, GetImage returns the daemon
\* strategy's Image, and no method of the registry strategy is called.
C8_DaemonBeforeRegistry ==
    ( /\ entry = "GetImage"
      /\ ~Prefixed0
      /\ pcR = "returned"
      /\ supp["daemon"] = "yes"
      /\ can["daemon"].fs /\ can["daemon"].cfg
      /\ CloudWouldSucceed ) =>
        /\ ret.err = NilErr
        /\ ret.img = ImageBy("daemon")
        /\ ~Called("cloud")

\* C8 witness: both strategies support and can materialize the identifier,
\* and GetImage has returned.
C8_Witness ==
    /\ entry = "GetImage"
    /\ ~Prefixed0
    /\ pcR = "returned"
    /\ supp["daemon"] = "yes"
    /\ can["daemon"].fs /\ can["daemon"].cfg
    /\ CloudWouldSucceed
    /\ ret.img.Config = ConfigOf("daemon")

\* C10: getImage returns an Image with a nil error only if GetFileSystem and
\* GetConfig of the strategy both succeeded; if either failed, getImage
\* returns an error and no Image.
C10_NilErrorOnlyIfBothSucceed ==
    \A s \in Strategies :
        /\ got[s] = "ok" => (meth[s].fs = "ok" /\ meth[s].cfg = "ok")
        /\ (meth[s].fs = "failed" \/ meth[s].cfg = "failed") =>
               (got[s] = "failed" /\ (pcR = "returned" => ret.img # ImageBy(s)))

\* ======================================================================
\* Properties of the result renderer (OutputSpec)
\* ======================================================================

\* The position of analyzer name n among the names of the result map, in
\* ascending order.
Rank(n) == Cardinality({m \in DOMAIN resultMap : LexLess(m, n)}) + 1

\* C9: the analyzers are rendered in ascending lexicographic order of their
\* names, each exactly once, whatever order the map yielded them in; in JSON
\* mode element i of the emitted sequence is the payload of the i-th smallest
\* analyzer name.
C9_RenderedInNameOrder ==
    pcOut = "done" =>
        /\ Len(rendered) = Cardinality(DOMAIN resultMap)
        /\ \A n \in DOMAIN resultMap : rendered[Rank(n)] = n
        /\ \A i, j \in 1..Len(rendered) : i < j => LexLess(rendered[i], rendered[j])
        /\ json =>
               /\ Len(results) = Cardinality(DOMAIN resultMap)
               /\ \A n \in DOMAIN resultMap : results[Rank(n)] = OutputStruct(resultMap[n])
               /\ \A k \in 1..Len(stdout) : stdout[k] = <<"json", results>>
        /\ ~json =>
               \A i, j \in 1..Len(stdout) : i < j => LexLess(stdout[i][2], stdout[j][2])

\* C9 witness: a JSON payload of two analyzers has been emitted although the
\* map yielded the larger name first.
C9_Witness ==
    /\ pcOut = "done"
    /\ json
    /\ Len(iterOrder) = 2
    /\ LexLess(iterOrder[2], iterOrder[1])
    /\ stdout = <<<<"json", results>>>>

\* The analyzers whose OutputText returned an error.
TextFailed == {logged[k][2] : k \in {j \in 1..Len(logged) : logged[j][1] = "OutputText"}}

\* The analyzers whose text reached standard output.
TextWritten == {stdout[k][2] : k \in {j \in 1..Len(stdout) : stdout[j][1] = "text"}}

\* C11: in text mode a failing OutputText does not stop the rendering: when
\* outputResults is done OutputText has been called for every analyzer of the
\* map, and the text of every analyzer whose OutputText did not fail is on
\* standard output; a failure is only logged.
C11_TextFailureDoesNotStopOthers ==
    (pcOut = "done" /\ ~json) =>
        /\ \A n \in DOMAIN resultMap : \E k \in 1..Len(rendered) : rendered[k] = n
        /\ TextWritten = DOMAIN resultMap \ TextFailed
        /\ \A n \in DOMAIN resultMap :
               n \notin TextFailed => \E k \in 1..Len(stdout) : stdout[k] = <<"text", n, resultMap[n]>>

\* C11 witness: of two analyzers the first one rendered failed, and the text
\* of the second one was written all the same.
C11_Witness ==
    /\ pcOut = "done"
    /\ ~json
    /\ Len(rendered) = 2
    /\ TextFailed = {rendered[1]}
    /\ TextWritten = {rendered[2]}

\* The number of errors of JSONify that were logged.
JSONifyErrors == Cardinality({k \in 1..Len(logged) : logged[k] = <<"JSONify">>})

\* In JSON mode nothing is written but the whole payload, made of the
\* structured payload of every analyzer, and nothing is written before the
\* loop has ended.
PayloadOnlyWhenComplete ==
    /\ \A k \in 1..Len(stdout) :
          /\ stdout[k][1] = "json"
          /\ Len(stdout[k][2]) = Cardinality(DOMAIN resultMap)
          /\ \A n \in DOMAIN resultMap : stdout[k][2][Rank(n)] = OutputStruct(resultMap[n])
    /\ pcOut # "done" => stdout = <<>>
    /\ JSONifyErrors > 0 => pcOut = "done"

\* C12 as stated: in JSON mode the payload is emitted exactly once, only
\* after the structured payload of every analyzer has been produced, and
\* nothing is written per analyzer before that.
C12_PayloadExactlyOnce ==
    json =>
        /\ PayloadOnlyWhenComplete
        /\ pcOut = "done" => Len(stdout) = 1

\* C12 amended: in JSON mode JSONify is called exactly once, only after the
\* structured payload of every analyzer has been produced; the payload is
\* emitted exactly once when JSONify returns no error and not at all when it
\* returns one, which is logged; nothing is written per analyzer before that.
C12_PayloadOnceUnlessJSONifyFails ==
    json =>
        /\ PayloadOnlyWhenComplete
        /\ Len(stdout) <= 1
        /\ pcOut = "done" => Len(stdout) + JSONifyErrors = 1

\* C12 witness: the payload of two analyzers has been emitted once.
C12_Witness ==
    /\ pcOut = "done"
    /\ json
    /\ Cardinality(DOMAIN resultMap) = 2
    /\ Len(stdout) = 1
    /\ JSONifyErrors = 0
    /\ \A n \in DOMAIN resultMap : stdout[1][2][Rank(n)] = OutputStruct(resultMap[n])

\* strings.TrimPrefix(s, prefix): s without its leading prefix, if it has one.
WithoutLeading(s, prefix) == IF HasPrefix(s, prefix) THEN Tail(s) ELSE s

\* A step in which CloudPrepper.SupportsImage answers.
CloudSupportsImageStep == supp["cloud"] = "notAsked" /\ supp'["cloud"] # "notAsked"

\* C13: CloudPrepper.SupportsImage changes Source only by removing the remote
\* scheme prefix from its front, and leaves Source as it was whenever it
\* returns false.
C13_SupportsImageOnlyStripsPrefix ==
    [][CloudSupportsImageStep =>
          /\ Source' \in {Source, WithoutLeading(Source, RemotePrefix)}
          /\ supp'["cloud"] = "no" => Source' = Source]_vars

\* The identifier CloudPrepper.SupportsImage was asked about: nothing changes
\* Source before that call, neither in the probing loop nor in a direct call.
AskedCloud == supp["cloud"] # "notAsked"

\* C16: CloudPrepper.SupportsImage returns true exactly when the identifier
\* does not contain the daemon prefix, is not a tar path and parses as a
\* valid image reference; it returns false for every identifier that fails
\* reference parsing.
C16_SupportsImageIffValidReference ==
    AskedCloud =>
        /\ supp["cloud"] = "yes" <=>
               /\ ~MatchesDaemonRegex(source0)
               /\ ~IsTar(source0)
               /\ ReferenceParseOK(source0)
        /\ ~ReferenceParseOK(source0) => supp["cloud"] = "no"

\* C18: for an identifier with the daemon or the remote prefix GetImage
\* removes exactly that leading prefix: the Source of the Image it returns is
\* the identifier without its first token, the rest unchanged.
C18_ExactlyLeadingPrefixRemoved ==
    (pcR = "returned" /\ entry = "GetImage" /\ Prefixed0 /\ ret.err.isNil) =>
        /\ ret.img.Source = Tail(source0)
        /\ Source = Tail(source0)

\* C20: once GetImage has returned, every temporary directory that still
\* exists is the FSPath of the Image it returned without error: the
\* directory of a failed attempt is gone.
C20_NoDirectoryOfFailedAttemptLeft ==
    (pcR = "returned" /\ entry = "GetImage") =>
        /\ \A d \in resDirs : ret.err.isNil /\ d = ret.img.FSPath
        /\ \A s \in Strategies : got[s] = "failed" => dirOf[s] \notin resDirs

\* The layers whose unpackTar has begun and has not returned.
PartiallyApplied ==
    {i \in Layers : /\ \E k \in 1..Len(applyLog) : applyLog[k] = <<"begin", i>>
                    /\ ~\E k \in 1..Len(applyLog) : applyLog[k] = <<"end", i>>}

\* C14: the layer pipeline takes an external cancellation signal, and once
\* cancellation has occurred no layer is left partially applied: the
\* destination holds completely applied layers only.
C14_NoPartialLayerAfterCancellation ==
    interrupted => PartiallyApplied = {}

\* C17: every goroutine processLayers started comes to its end, the failing
\* ones too: the pipeline does not come to rest with a goroutine parked on
\* the send to errs, with wg.Wait() not returned or with errs not closed.
C17_WorkersTerminate ==
    (~interrupted /\ pcCoord # "idle" /\ ~ENABLED PipelineNext) =>
        /\ \A i \in Layers : pcW[i] = "done"
        /\ pcCoord = "exit"
        /\ errsClosed

\* What one call of CleanupImage may do: nothing when FSPath is empty, and
\* else a call of os.RemoveAll that takes away no directory but the Image's.
CleanupTouchesOnlyItsDirectory(e) ==
    /\ e.path = 0 => ~e.called /\ e.after = e.before
    /\ e.path # 0 => e.called
    /\ e.after \subseteq e.before
    /\ e.before \ e.after \subseteq {e.path}

\* C15 as stated: CleanupImage removes the directory of the Image when FSPath
\* is not empty and does nothing when it is empty; it changes nothing besides
\* that directory, and a second call leaves the state the first call left.
C15_CleanupRemovesDirectory ==
    \A k \in 1..Len(cleanLog) :
        /\ CleanupTouchesOnlyItsDirectory(cleanLog[k])
        /\ cleanLog[k].path # 0 => cleanLog[k].path \notin cleanLog[k].after
        /\ k > 1 => cleanLog[k].after = cleanLog[1].after

\* C15 amended: CleanupImage calls os.RemoveAll on the directory of the Image
\* when FSPath is not empty, which removes it unless RemoveAll returns an
\* error, and does nothing when FSPath is empty; it changes nothing besides
\* that directory, and a call after one that removed the directory leaves the
\* state as it was.
C15_CleanupRemovesUnlessRemoveAllFails ==
    \A k \in 1..Len(cleanLog) :
        /\ CleanupTouchesOnlyItsDirectory(cleanLog[k])
        /\ (cleanLog[k].path # 0 /\ ~cleanLog[k].failed) =>
               cleanLog[k].path \notin cleanLog[k].after
        /\ cleanLog[k].failed => cleanLog[k].after = cleanLog[k].before
        /\ \A j \in 1..(k - 1) :
               ~cleanLog[j].failed =>
                   /\ ~cleanLog[k].failed
                   /\ cleanLog[k].before = cleanLog[j].after
                   /\ cleanLog[k].after = cleanLog[j].after

\* C15 witness: CleanupImage has removed the directory of the Image and left
\* another one, and a second call has changed nothing.
C15_Witness ==
    /\ Len(cleanLog) = 2
    /\ cleanLog[1].path \in cleanLog[1].before
    /\ cleanLog[1].after = cleanLog[1].before \ {cleanLog[1].path}
    /\ cleanLog[1].after # {}
    /\ cleanLog[2].called
    /\ cleanLog[2].after = cleanLog[1].after

\* The piece of flagtypes from position i to position j is one of its
\* comma-separated names: a comma or an end on each side, and no comma inside.
IsName(i, j) ==
    /\ i = 1 \/ flagtypes[i - 1] = ","
    /\ j = Len(flagtypes) \/ flagtypes[j + 1] = ","
    /\ \A k \in i..j : flagtypes[k] # ","

NamePieces ==
    {sg \in (1..(Len(flagtypes) + 1)) \X (0..Len(flagtypes)) :
        sg[2] >= sg[1] - 1 /\ IsName(sg[1], sg[2])}

NameAt(sg) == SubSeq(flagtypes, sg[1], sg[2])

Unregistered == {sg \in NamePieces : NameAt(sg) \notin Analyzers}

\* C19: checkIfValidAnalyzer returns nil exactly when the list is not empty
\* and every comma-separated name is registered; an empty list yields an
\* error, and a list with an unregistered name yields the error that names
\* the first unregistered name of the list.
C19_NilIffAllRegistered ==
    pcV = "done" =>
        /\ vRet.isNil <=> (flagtypes # <<>> /\ Unregistered = {})
        /\ flagtypes = <<>> =>
               vRet = Err(<<"Please provide at least one analyzer to run", <<>>>>)
        /\ (flagtypes # <<>> /\ Unregistered # {}) =>
               \E sg \in Unregistered :
                   /\ \A o \in Unregistered : sg[1] <= o[1]
                   /\ vRet = Err(<<"Argument is not a valid analyzer", NameAt(sg)>>)

\* C19 witness: of three names the first is registered and the other two,
\* different ones, are not; the error names the second.
C19_Witness ==
    /\ pcV = "done"
    /\ Len(Split(flagtypes)) = 3
    /\ Split(flagtypes)[1] \in Analyzers
    /\ Split(flagtypes)[2] \notin Analyzers
    /\ Split(flagtypes)[3] \notin Analyzers
    /\ Split(flagtypes)[2] # Split(flagtypes)[3]
    /\ vRet = Err(<<"Argument is not a valid analyzer", Split(flagtypes)[2]>>)

====
